---- MODULE Spec2Model ----
(***************************************************************************)
(* Model of brainspy-smg's surrogate-model training routine                *)
(* (bspysmg/model/data/outputs/train_model.py) and of the plotting helpers *)
(* plot_waves and iv_plot (bspysmg/utils/plots.py).                        *)
(*                                                                         *)
(* Python values are encoded as follows.  An optional value is a sequence: *)
(* <<>> is None and <<v>> is the value v.  A path is the sequence of its   *)
(* components.  A dict is a function from its keys.  A tensor or array is  *)
(* a record naming where its data comes from, how many samples it holds    *)
(* and the integer factor it has been multiplied by.                       *)
(***************************************************************************)
EXTENDS Integers, Sequences, FiniteSets, TLC

VARIABLES
    pc,             \* position of train_surrogate_model in its body
    configs,        \* the configs dict (mutated in place at line 23)
    configs0,       \* configs as passed in by the caller (history)
    main_folder,    \* the main_folder argument
    model,          \* the local name `model` (rebound at line 29)
    model0,         \* the model passed in by the caller (history)
    results_dir,    \* <<>> before line 16, <<dir>> after
    seed,           \* the local name `seed` after line 22, <<>> before
    dataloaders,    \* <<>> before line 27, the three loaders after
    amplification,  \* the amplification returned by load_data, 0 before
    performances,   \* performances['performance_history'], <<>> before
    torch,          \* [grad |-> grad mode, training |-> module mode]
    calls,          \* every call made so far, in order
    fs,             \* the files written so far: path -> content
    plotlog         \* the calls of plot_waves and iv_plot made so far

vars == <<pc, configs, configs0, main_folder, model, model0, results_dir, seed,
          dataloaders, amplification, performances, torch, calls, fs, plotlog>>

pipeVars == <<pc, configs, configs0, main_folder, model, model0, results_dir,
              seed, dataloaders, amplification, performances, torch, calls>>

----------------------------------------------------------------------------
(* Bounds of the model *)

MaxStamp == 2        \* timestamps create_directory_timestamp may draw
MaxSeed == 1         \* seeds are 0..MaxSeed
MaxAmp == 2          \* amplification factors are 1..MaxAmp
MaxExtra == 2        \* how far a training set may exceed DefaultEvalSamples
MaxBatches == 1      \* a loader has 0..MaxBatches batches
MaxPlotCalls == 3    \* calls of the plotting helpers in one run of SpecPlots
MaxBatch == 1        \* plot_waves batch numbers are 0..MaxBatch

(* Program constant: train_model.py line 39, dataset[:1000] *)
DefaultEvalSamples == 1000

None == <<>>
Some(v) == <<v>>
Min(a, b) == IF a < b THEN a ELSE b

Bases == {<<"results">>, <<"tmp", "out">>}
MainFolders == {"training_data", "custom"}
Seeds == 0..MaxSeed
Amps == 1..MaxAmp
TrainSizes == {1, DefaultEvalSamples, DefaultEvalSamples + MaxExtra}
EvalSizes == {0, 2}
Histories == {<<1, 1>>, <<3, 2>>}

----------------------------------------------------------------------------
(* Library calls, as the code uses them *)

\* os.path.join(directory, name) for a relative one-component name
PathJoin(dir, name) == Append(dir, name)

\* The directory a path lies in
DirName(path) == SubSeq(path, 1, Len(path) - 1)

\* create_directory_timestamp(base, folder): base/folder_<timestamp>
DirectoryTimestamp(base, folder, stamp) ==
    Append(base, folder \o "_" \o ToString(stamp))

\* fs with content written at path (an existing file is overwritten)
WriteFile(files, path, content) ==
    [p \in DOMAIN files \cup {path} |-> IF p = path THEN content ELSE files[p]]

\* One entry of the call log
Call(fn, arg, ret) == [fn |-> fn, arg |-> arg, ret |-> ret]

\* A dataset object of a split with n samples
Dataset(split, n) == [kind |-> "dataset", split |-> split, n |-> n]

\* A tensor holding column col of the first n samples of a split
Tensor(split, col, n) ==
    [type |-> "tensor", split |-> split, col |-> col, n |-> n,
     by |-> None, scale |-> 1]

\* obj[:stop] (stop = None for obj[:]).  A dataset answers a slice with the
\* pair (inputs, targets) of its first min(stop, n) samples; the pair is a
\* tuple of two elements, whose slice [:stop] with stop >= 2 or None is itself.
GetSlice(obj, stop) ==
    IF obj.kind = "dataset"
    THEN LET k == IF stop = None THEN obj.n ELSE Min(stop[1], obj.n)
         IN  [kind |-> "tuple",
              inputs |-> Tensor(obj.split, "inputs", k),
              targets |-> Tensor(obj.split, "targets", k)]
    ELSE obj

\* model(inputs): the prediction of module m for the inputs
Forward(m, inputs) == [inputs EXCEPT !.col = "predictions", !.by = Some(m)]

\* TorchUtils.get_numpy_from_tensor
GetNumpyFromTensor(t) == [t EXCEPT !.type = "numpy"]

\* factor * array
Times(factor, array) == [array EXCEPT !.scale = factor * @]

\* torch.no_grad().__enter__: remembers the grad mode and disables it
NoGradEnter(t) == [t EXCEPT !.grad = FALSE]

\* torch.no_grad().__exit__: restores the remembered grad mode
NoGradExit(t, prev) == [t EXCEPT !.grad = prev]

\* model.eval()
ModelEval(t) == [t EXCEPT !.training = FALSE]

----------------------------------------------------------------------------
(* postprocess, train_model.py lines 63-80 *)

\* postprocess with model.eval() moved after the forward call
postprocess_eval_after_forward(dataset, m, amp, dir, label, t) ==
    LET prev == t.grad
        t1 == NoGradEnter(t)
        pair == GetSlice(dataset, None)
        predictions == Forward(m, pair.inputs)
        t2 == ModelEval(t1)
        t3 == NoGradExit(t2, prev)
        train_targets == Times(amp, GetNumpyFromTensor(pair.targets))
        train_output == Times(amp, GetNumpyFromTensor(predictions))
    IN  [torch |-> t3,
         events |-> << Call("no_grad_enter", [grad |-> t.grad], None),
                       Call("forward",
                            [model |-> m, inputs |-> pair.inputs,
                             grad |-> t1.grad, training |-> t1.training],
                            predictions),
                       Call("eval", [model |-> m], None),
                       Call("no_grad_exit", [grad |-> t3.grad], None),
                       Call("plot_all",
                            [targets |-> train_targets, output |-> train_output,
                             results_dir |-> dir, name |-> label], None) >>]

\* The body of postprocess run from torch state t: the torch state it leaves
\* and the calls it makes, in order.  The forward call records the grad mode
\* and the module mode it ran under.
postprocess(dataset, m, amp, dir, label, t) ==
    LET prev == t.grad
        t1 == NoGradEnter(t)
        t2 == ModelEval(t1)
        pair == GetSlice(dataset, None)
        predictions == Forward(m, pair.inputs)
        t3 == NoGradExit(t2, prev)
        train_targets == Times(amp, GetNumpyFromTensor(pair.targets))
        train_output == Times(amp, GetNumpyFromTensor(predictions))
    IN  [torch |-> t3,
         events |-> << Call("no_grad_enter", [grad |-> t.grad], None),
                       Call("eval", [model |-> m], None),
                       Call("forward",
                            [model |-> m, inputs |-> pair.inputs,
                             grad |-> t2.grad, training |-> t2.training],
                            predictions),
                       Call("no_grad_exit", [grad |-> t3.grad], None),
                       Call("plot_all",
                            [targets |-> train_targets, output |-> train_output,
                             results_dir |-> dir, name |-> label], None) >>]

\* One postprocess call of train_surrogate_model, as an entry of the call log
PostprocessCall(dataset, label) ==
    LET r == postprocess(dataset, model, amplification, results_dir[1], label, torch)
    IN  /\ torch' = r.torch
        /\ calls' = Append(calls,
                [fn |-> "postprocess",
                 arg |-> [dataset |-> dataset, model |-> model,
                          amplification |-> amplification,
                          results_dir |-> results_dir[1], label |-> label],
                 ret |-> None,
                 events |-> r.events])

----------------------------------------------------------------------------
(* train_surrogate_model, train_model.py lines 14-59 *)

\* The indices of the calls of fn in the call log
CallsOf(fn) == {i \in 1..Len(calls) : calls[i].fn = fn}

\* dataloaders[i], with Python's index from 0
Loader(i) == dataloaders[i + 1]

\* The configs dicts a caller may pass: 'seed' is optional
ConfigsWithoutSeed ==
    { [k \in {"results_base_dir", "hyperparameters"} |->
          IF k = "results_base_dir" THEN b ELSE <<"epochs", "lr">>] : b \in Bases }

ConfigsWithSeed ==
    { [k \in {"results_base_dir", "hyperparameters", "seed"} |->
          CASE k = "results_base_dir" -> b
            [] k = "hyperparameters" -> <<"epochs", "lr">>
            [] k = "seed" -> <<s>>] : b \in Bases, s \in Seeds }

Init ==
    /\ pc = "start"
    /\ configs \in ConfigsWithoutSeed \cup ConfigsWithSeed
    /\ configs0 = configs
    /\ main_folder \in MainFolders
    /\ model = [origin |-> "argument", version |-> 0]
    /\ model0 = model
    /\ results_dir = None
    /\ seed = None
    /\ dataloaders = <<>>
    /\ amplification = 0
    /\ performances = <<>>
    /\ torch = [grad |-> TRUE, training |-> TRUE]
    /\ calls = <<>>
    /\ fs = [p \in {} |-> None]
    /\ plotlog = <<>>

\* line 16
CreateDirectoryTimestamp ==
    /\ pc = "start"
    /\ \E stamp \in 1..MaxStamp :
         LET dir == DirectoryTimestamp(configs["results_base_dir"], main_folder, stamp)
         IN  /\ results_dir' = Some(dir)
             /\ calls' = Append(calls,
                   Call("create_directory_timestamp",
                        [base |-> configs["results_base_dir"], folder |-> main_folder],
                        dir))
    /\ pc' = "dir"
    /\ UNCHANGED <<configs, configs0, main_folder, model, model0, seed, dataloaders,
                   amplification, performances, torch, fs, plotlog>>

\* InitSeed storing the seed it gave instead of the seed init_seed returned
InitSeedKeepsGiven ==
    /\ pc = "dir"
    /\ LET given == IF "seed" \in DOMAIN configs THEN configs["seed"] ELSE None
       IN  \E used \in Seeds :
             /\ seed' = Some(used)
             /\ configs' = [k \in DOMAIN configs \cup {"seed"} |->
                               IF k = "seed" THEN given ELSE configs[k]]
             /\ calls' = Append(calls,
                   Call("init_seed", [seed |-> given, deterministic |-> TRUE],
                        Some(used)))
    /\ pc' = "seeded"
    /\ UNCHANGED <<configs0, main_folder, model, model0, results_dir, dataloaders,
                   amplification, performances, torch, fs, plotlog>>

\* lines 17-23: the seed handed to init_seed, which answers with the seed in
\* use (any seed: the one given, or one it drew)
InitSeed ==
    /\ pc = "dir"
    /\ LET given == IF "seed" \in DOMAIN configs THEN configs["seed"] ELSE None
       IN  \E used \in Seeds :
             /\ seed' = Some(used)
             /\ configs' = [k \in DOMAIN configs \cup {"seed"} |->
                               IF k = "seed" THEN Some(used) ELSE configs[k]]
             /\ calls' = Append(calls,
                   Call("init_seed", [seed |-> given, deterministic |-> TRUE],
                        Some(used)))
    /\ pc' = "seeded"
    /\ UNCHANGED <<configs0, main_folder, model, model0, results_dir, dataloaders,
                   amplification, performances, torch, fs, plotlog>>

\* line 27: load_data answers with three loaders and the amplification
LoadData ==
    /\ pc = "seeded"
    /\ \E nTrain \in TrainSizes, nVal \in EvalSizes, nTest \in EvalSizes,
          bVal \in 0..MaxBatches, bTest \in 0..MaxBatches, amp \in Amps :
         /\ bVal <= nVal
         /\ bTest <= nTest
         /\ dataloaders' = << [dataset |-> Dataset("train", nTrain), len |-> 1],
                              [dataset |-> Dataset("validation", nVal), len |-> bVal],
                              [dataset |-> Dataset("test", nTest), len |-> bTest] >>
         /\ amplification' = amp
         /\ calls' = Append(calls, Call("load_data", [configs |-> configs], None))
    /\ pc' = "loaded"
    /\ UNCHANGED <<configs, configs0, main_folder, model, model0, results_dir, seed,
                   performances, torch, fs, plotlog>>

\* Train given the test loader as its validation loader
TrainOnTestLoader ==
    /\ pc = "loaded"
    /\ \E version \in 1..2, mode \in BOOLEAN, history \in Histories :
         LET trained == [origin |-> "train", version |-> version]
         IN  /\ model' = trained
             /\ performances' = history
             /\ torch' = [torch EXCEPT !.training = mode]
             /\ calls' = Append(calls,
                   Call("train",
                        [model |-> model, loaders |-> <<Loader(0), Loader(2)>>,
                         hyperparameters |-> configs["hyperparameters"],
                         save_dir |-> results_dir[1]],
                        trained))
    /\ pc' = "trained"
    /\ UNCHANGED <<configs, configs0, main_folder, model0, results_dir, seed,
                   dataloaders, amplification, fs, plotlog>>

\* line 29: train answers with the trained model and its performances; it may
\* leave the module in training or in evaluation mode
Train ==
    /\ pc = "loaded"
    /\ \E version \in 1..2, mode \in BOOLEAN, history \in Histories :
         LET trained == [origin |-> "train", version |-> version]
         IN  /\ model' = trained
             /\ performances' = history
             /\ torch' = [torch EXCEPT !.training = mode]
             /\ calls' = Append(calls,
                   Call("train",
                        [model |-> model, loaders |-> <<Loader(0), Loader(1)>>,
                         hyperparameters |-> configs["hyperparameters"],
                         save_dir |-> results_dir[1]],
                        trained))
    /\ pc' = "trained"
    /\ UNCHANGED <<configs, configs0, main_folder, model0, results_dir, seed,
                   dataloaders, amplification, fs, plotlog>>

\* line 33
PostprocessTraining ==
    /\ pc = "trained"
    /\ PostprocessCall(Loader(0).dataset, "TRAINING")
    /\ pc' = "post_training"
    /\ UNCHANGED <<configs, configs0, main_folder, model, model0, results_dir, seed,
                   dataloaders, amplification, performances, fs, plotlog>>

\* PostprocessValidation falling back on the whole training dataset
PostprocessValidationUnsliced ==
    /\ pc = "post_training"
    /\ IF Loader(1).len > 0
       THEN PostprocessCall(Loader(1).dataset, "VALIDATION")
       ELSE PostprocessCall(Loader(0).dataset, "VALIDATION")
    /\ pc' = "post_validation"
    /\ UNCHANGED <<configs, configs0, main_folder, model, model0, results_dir, seed,
                   dataloaders, amplification, performances, fs, plotlog>>

\* lines 35-39
PostprocessValidation ==
    /\ pc = "post_training"
    /\ IF Loader(1).len > 0
       THEN PostprocessCall(Loader(1).dataset, "VALIDATION")
       ELSE PostprocessCall(GetSlice(Loader(0).dataset, Some(DefaultEvalSamples)),
                            "VALIDATION")
    /\ pc' = "post_validation"
    /\ UNCHANGED <<configs, configs0, main_folder, model, model0, results_dir, seed,
                   dataloaders, amplification, performances, fs, plotlog>>

\* lines 40-41
PostprocessTest ==
    /\ pc = "post_validation"
    /\ IF Loader(2).len > 0
       THEN PostprocessCall(Loader(2).dataset, "TEST")
       ELSE UNCHANGED <<torch, calls>>
    /\ pc' = "post_test"
    /\ UNCHANGED <<configs, configs0, main_folder, model, model0, results_dir, seed,
                   dataloaders, amplification, performances, fs, plotlog>>

\* SaveTrainingProfile run before the TEST postprocess call
SaveTrainingProfileBeforeTest ==
    /\ pc = "post_validation"
    /\ CallsOf("savefig") = {}
    /\ LET training_profile ==
               [i \in 1..Len(performances) |->
                   performances[i] * (amplification * amplification)]
           path == PathJoin(results_dir[1], "training_profile")
       IN  /\ fs' = WriteFile(fs, path, [by |-> "training_profile",
                                         data |-> training_profile])
           /\ calls' = Append(calls, Call("savefig", [fname |-> path], None))
    /\ pc' = "post_validation"
    /\ UNCHANGED <<configs, configs0, main_folder, model, model0, results_dir, seed,
                   dataloaders, amplification, performances, torch, plotlog>>

\* SaveTrainingProfile saving into results_base_dir
SaveTrainingProfileInBaseDir ==
    /\ pc = "post_test"
    /\ LET training_profile ==
               [i \in 1..Len(performances) |->
                   performances[i] * (amplification * amplification)]
           path == PathJoin(configs["results_base_dir"], "training_profile")
       IN  /\ fs' = WriteFile(fs, path, [by |-> "training_profile",
                                         data |-> training_profile])
           /\ calls' = Append(calls, Call("savefig", [fname |-> path], None))
    /\ pc' = "done"
    /\ UNCHANGED <<configs, configs0, main_folder, model, model0, results_dir, seed,
                   dataloaders, amplification, performances, torch, plotlog>>

\* lines 50-56: the training profile, history scaled by amplification ** 2
SaveTrainingProfile ==
    /\ pc = "post_test"
    /\ LET training_profile ==
               [i \in 1..Len(performances) |->
                   performances[i] * (amplification * amplification)]
           path == PathJoin(results_dir[1], "training_profile")
       IN  /\ fs' = WriteFile(fs, path, [by |-> "training_profile",
                                         data |-> training_profile])
           /\ calls' = Append(calls, Call("savefig", [fname |-> path], None))
    /\ pc' = "done"
    /\ UNCHANGED <<configs, configs0, main_folder, model, model0, results_dir, seed,
                   dataloaders, amplification, performances, torch, plotlog>>

Next ==
    \/ CreateDirectoryTimestamp
    \/ InitSeed
    \/ LoadData
    \/ Train
    \/ PostprocessTraining
    \/ PostprocessValidation
    \/ PostprocessTest
    \/ SaveTrainingProfile

Spec == Init /\ [][Next]_vars

----------------------------------------------------------------------------
(* plot_waves and iv_plot, plots.py lines 92-132 and 173-199 *)

SaveDirectories == {<<"out">>, <<"out", "waves">>}
Legend == <<"in_1", "in_2", "out_1">>
ElectrodeCounts == {[input_no |-> 2, output_no |-> 1],
                    [input_no |-> 1, output_no |-> 0]}

\* Python values a caller may give as save_plot: None, a bool, a file name
NoneValue == [type |-> "NoneType"]
BoolValue(b) == [type |-> "bool", value |-> b]
StrValue(path) == [type |-> "str", path |-> path]
SavePlotValues ==
    {NoneValue, BoolValue(TRUE), BoolValue(FALSE), StrValue(<<"iv_curve">>)}

\* v is not None
IsNotNone(v) == v.type # "NoneType"

\* list[:k], k >= 0
SliceTo(list, k) == SubSeq(list, 1, Min(k, Len(list)))

\* list[-k:], k >= 0 (list[-0:] is the whole list)
SliceLast(list, k) ==
    IF k = 0 THEN list ELSE SubSeq(list, Len(list) - Min(k, Len(list)) + 1, Len(list))

\* plot_waves saving one file per batch
plot_waves_per_batch(inputs, outputs, input_no, output_no, batch, legend, save_directory) ==
    LET figure == [by |-> "plot_waves", suptitle |-> batch,
                   top |-> [data |-> inputs, legend |-> SliceTo(legend, input_no)],
                   bottom |-> [data |-> outputs,
                               legend |-> SliceLast(legend, output_no)]]
        path == PathJoin(save_directory, "example_batch_" \o ToString(batch))
    IN  /\ fs' = WriteFile(fs, path, figure)
        /\ plotlog' = Append(plotlog,
               [fn |-> "plot_waves",
                arg |-> [batch |-> batch, save_directory |-> save_directory],
                figure |-> figure,
                events |-> << Call("savefig", [fname |-> StrValue(path)], None) >>,
                raised |-> FALSE])

\* lines 118-132: the figure plot_waves draws and the file it saves it to
plot_waves(inputs, outputs, input_no, output_no, batch, legend, save_directory) ==
    LET figure == [by |-> "plot_waves", suptitle |-> batch,
                   top |-> [data |-> inputs, legend |-> SliceTo(legend, input_no)],
                   bottom |-> [data |-> outputs,
                               legend |-> SliceLast(legend, output_no)]]
        path == PathJoin(save_directory, "example_batch")
    IN  /\ fs' = WriteFile(fs, path, figure)
        /\ plotlog' = Append(plotlog,
               [fn |-> "plot_waves",
                arg |-> [batch |-> batch, save_directory |-> save_directory],
                figure |-> figure,
                events |-> << Call("savefig", [fname |-> StrValue(path)], None) >>,
                raised |-> FALSE])

\* lines 193-199.  plt.savefig documents its file name as a str, a path or a
\* file object; given a bool it either raises (and iv_plot ends there) or
\* returns without a file: `outcome` is which.
iv_plot(result, input_electrode, save_plot, show_plot, outcome) ==
    LET figure == [by |-> "iv_plot", data |-> result, label |-> input_electrode]
        saving == IsNotNone(save_plot)
        raises == saving /\ save_plot.type # "str" /\ outcome = "raises"
        showing == show_plot /\ ~raises
        events == << Call("plot", [data |-> result], None) >>
                  \o (IF saving
                      THEN << Call("savefig", [fname |-> save_plot], None) >>
                      ELSE << >>)
                  \o (IF showing THEN << Call("show", [data |-> result], None) >>
                      ELSE << >>)
    IN  /\ fs' = IF saving /\ save_plot.type = "str"
                 THEN WriteFile(fs, save_plot.path, figure)
                 ELSE fs
        /\ plotlog' = Append(plotlog,
               [fn |-> "iv_plot",
                arg |-> [save_plot |-> save_plot, show_plot |-> show_plot],
                figure |-> figure,
                events |-> events,
                raised |-> raises])

InitPlots ==
    /\ pc = "idle"
    /\ configs = [results_base_dir |-> <<"results">>,
                  hyperparameters |-> <<"epochs", "lr">>]
    /\ configs0 = configs
    /\ main_folder = "training_data"
    /\ model = [origin |-> "argument", version |-> 0]
    /\ model0 = model
    /\ results_dir = None
    /\ seed = None
    /\ dataloaders = <<>>
    /\ amplification = 0
    /\ performances = <<>>
    /\ torch = [grad |-> TRUE, training |-> TRUE]
    /\ calls = <<>>
    /\ fs = [p \in {} |-> None]
    /\ plotlog = <<>>

PlotWaves ==
    /\ Len(plotlog) < MaxPlotCalls
    /\ \E batch \in 0..MaxBatch, dir \in SaveDirectories, n \in ElectrodeCounts :
         plot_waves([wave |-> "inputs", batch |-> batch],
                    [wave |-> "outputs", batch |-> batch],
                    n.input_no, n.output_no, batch, Legend, dir)
    /\ UNCHANGED pipeVars

IvPlot ==
    /\ Len(plotlog) < MaxPlotCalls
    /\ \E save_plot \in SavePlotValues, show_plot \in BOOLEAN,
          outcome \in {"raises", "returns"} :
         iv_plot("currents", 0, save_plot, show_plot, outcome)
    /\ UNCHANGED pipeVars

NextPlots ==
    \/ PlotWaves
    \/ IvPlot

SpecPlots == InitPlots /\ [][NextPlots]_vars

----------------------------------------------------------------------------
(* Reading the call log *)

\* The indices of the events named fn inside one postprocess call
EventsOf(call, fn) == {i \in 1..Len(call.events) : call.events[i].fn = fn}

\* The position of a call in the body of train_surrogate_model
Rank(fn) ==
    CASE fn = "create_directory_timestamp" -> 1
      [] fn = "init_seed" -> 2
      [] fn = "load_data" -> 3
      [] fn = "train" -> 4
      [] fn = "postprocess" -> 5
      [] fn = "savefig" -> 6

\* The labels of the postprocess calls made so far, in order
RECURSIVE LabelsFrom(_)
LabelsFrom(i) ==
    IF i > Len(calls) THEN <<>>
    ELSE IF calls[i].fn = "postprocess"
         THEN <<calls[i].arg.label>> \o LabelsFrom(i + 1)
         ELSE LabelsFrom(i + 1)

Labels == LabelsFrom(1)

IsPrefix(s, t) == Len(s) <= Len(t) /\ SubSeq(t, 1, Len(s)) = s

PostprocessingOver == pc \in {"post_test", "done"}

----------------------------------------------------------------------------
(* C1: the calls of train_surrogate_model happen in one fixed order:        *)
(* create_directory_timestamp, init_seed, load_data, train (exactly once),  *)
(* then the postprocess calls, and the training_profile figure is saved     *)
(* only after the last postprocess call; no postprocess call precedes       *)
(* train and train never precedes load_data.                                *)
C1_CallOrder ==
    /\ \A i, j \in 1..Len(calls) :
         i < j => /\ Rank(calls[i].fn) <= Rank(calls[j].fn)
                  /\ Rank(calls[i].fn) = Rank(calls[j].fn)
                        => calls[i].fn = "postprocess"
    /\ \A i \in 1..Len(calls) :
         IF i = 1 THEN Rank(calls[i].fn) = 1
         ELSE Rank(calls[i].fn) - Rank(calls[i - 1].fn) \in {0, 1}
    /\ pc = "done" =>
         /\ \A fn \in {"create_directory_timestamp", "init_seed", "load_data",
                       "train", "savefig"} : Cardinality(CallsOf(fn)) = 1
         /\ calls[Len(calls)].fn = "savefig"
         /\ CallsOf("postprocess") # {}

\* A finished run with three postprocess calls between train and the savefig
C1_Witness ==
    /\ pc = "done"
    /\ Cardinality(CallsOf("postprocess")) = 3
    /\ calls[4].fn = "train"
    /\ calls[8].fn = "savefig"

----------------------------------------------------------------------------
(* C2: postprocess is called in the order TRAINING, VALIDATION, TEST:       *)
(* TRAINING once on the full training dataset; VALIDATION once, on the      *)
(* validation dataset when len(dataloaders[1]) > 0 and otherwise on the     *)
(* first min(1000, N) training samples; TEST once when                      *)
(* len(dataloaders[2]) > 0 and never otherwise.                             *)
ExpectedLabels ==
    <<"TRAINING", "VALIDATION">>
    \o (IF Loader(2).len > 0 THEN <<"TEST">> ELSE <<>>)

\* The split and the number of samples the call with this label must evaluate
ExpectedSamples(label) ==
    CASE label = "TRAINING" ->
            [split |-> "train", n |-> Loader(0).dataset.n]
      [] label = "VALIDATION" ->
            IF Loader(1).len > 0
            THEN [split |-> "validation", n |-> Loader(1).dataset.n]
            ELSE [split |-> "train",
                  n |-> IF Loader(0).dataset.n < 1000 THEN Loader(0).dataset.n
                        ELSE 1000]
      [] label = "TEST" ->
            [split |-> "test", n |-> Loader(2).dataset.n]

C2_PostprocessCalls ==
    /\ CallsOf("postprocess") # {} => IsPrefix(Labels, ExpectedLabels)
    /\ PostprocessingOver => Labels = ExpectedLabels
    /\ \A i \in CallsOf("postprocess") :
         \A e \in EventsOf(calls[i], "forward") :
            LET x == calls[i].events[e].arg.inputs
            IN  [split |-> x.split, n |-> x.n] = ExpectedSamples(calls[i].arg.label)

\* No validation batches, no test batches, more than 1000 training samples
C2_Witness ==
    /\ pc = "done"
    /\ Loader(1).len = 0
    /\ Loader(2).len = 0
    /\ Loader(0).dataset.n > 1000
    /\ Labels = <<"TRAINING", "VALIDATION">>

----------------------------------------------------------------------------
(* C3: init_seed is called exactly once, with deterministic=True and with   *)
(* configs['seed'] when the key is present and None otherwise, before       *)
(* load_data and train; afterwards configs['seed'] is the value init_seed   *)
(* returned and no other key of configs was added, removed or changed.      *)
C3_SeedBookkeeping ==
    /\ Cardinality(CallsOf("init_seed")) <= 1
    /\ pc \notin {"start", "dir"} => Cardinality(CallsOf("init_seed")) = 1
    /\ \A i \in CallsOf("init_seed") :
         /\ calls[i].arg.deterministic = TRUE
         /\ calls[i].arg.seed = (IF "seed" \in DOMAIN configs0
                                 THEN configs0["seed"] ELSE None)
         /\ \A j \in CallsOf("load_data") \cup CallsOf("train") : i < j
         /\ "seed" \in DOMAIN configs
         /\ configs["seed"] = calls[i].ret
         /\ DOMAIN configs = DOMAIN configs0 \cup {"seed"}
         /\ \A k \in DOMAIN configs0 \ {"seed"} : configs[k] = configs0[k]

\* A finished run whose configs had no seed, and one whose init_seed answered
\* with another seed than the one given
C3_Witness ==
    /\ pc = "done"
    /\ \/ "seed" \notin DOMAIN configs0
       \/ "seed" \in DOMAIN configs0 /\ configs["seed"] # configs0["seed"]

----------------------------------------------------------------------------
(* C4: create_directory_timestamp is called exactly once, with              *)
(* (configs['results_base_dir'], main_folder); the directory it returns is  *)
(* the save_dir of train, the results_dir of every postprocess call and of  *)
(* its plot_all call, and the directory training_profile is saved in; no    *)
(* file is written outside it.                                              *)
C4_DirectoryBookkeeping ==
    /\ Cardinality(CallsOf("create_directory_timestamp")) <= 1
    /\ pc # "start" => Cardinality(CallsOf("create_directory_timestamp")) = 1
    /\ \A c \in CallsOf("create_directory_timestamp") :
         LET dir == calls[c].ret
         IN  /\ calls[c].arg = [base |-> configs0["results_base_dir"],
                                folder |-> main_folder]
             /\ \A i \in CallsOf("train") : calls[i].arg.save_dir = dir
             /\ \A i \in CallsOf("postprocess") :
                  /\ calls[i].arg.results_dir = dir
                  /\ \A e \in EventsOf(calls[i], "plot_all") :
                        calls[i].events[e].arg.results_dir = dir
             /\ \A i \in CallsOf("savefig") :
                  calls[i].arg.fname = dir \o <<"training_profile">>
             /\ \A p \in DOMAIN fs : SubSeq(p, 1, Len(dir)) = dir
    /\ CallsOf("create_directory_timestamp") = {} => DOMAIN fs = {}

\* A finished run: the figure is on disk and every call has been made
C4_Witness ==
    /\ pc = "done"
    /\ DOMAIN fs # {}
    /\ CallsOf("train") # {}
    /\ Cardinality(CallsOf("postprocess")) = 3

----------------------------------------------------------------------------
(* C7: train is given dataloaders[0] and dataloaders[1] only; the test      *)
(* split is touched only after train has returned and only by the           *)
(* postprocess call labelled TEST; every postprocess call evaluates the     *)
(* model train returned, not the model passed in.                           *)
C7_TestSplitIsolation ==
    /\ \A t \in CallsOf("train") :
         /\ calls[t].arg.loaders = <<dataloaders[1], dataloaders[2]>>
         /\ \A k \in 1..Len(calls[t].arg.loaders) :
               calls[t].arg.loaders[k].dataset.split # "test"
    /\ \A i \in CallsOf("postprocess") :
         /\ \E t \in CallsOf("train") :
               /\ t < i
               /\ calls[i].arg.model = calls[t].ret
               /\ \A e \in EventsOf(calls[i], "forward") :
                     calls[i].events[e].arg.model = calls[t].ret
         /\ calls[i].arg.model # model0
         /\ \A e \in EventsOf(calls[i], "forward") :
               calls[i].events[e].arg.inputs.split = "test"
                  <=> calls[i].arg.label = "TEST"

\* The TEST postprocess call has run on the test split
C7_Witness ==
    /\ pc = "done"
    /\ \E i \in CallsOf("postprocess") :
         /\ calls[i].arg.label = "TEST"
         /\ calls[i].events[3].arg.inputs.split = "test"
         /\ calls[i].arg.model.origin = "train"

----------------------------------------------------------------------------
(* C8: in postprocess model.eval() precedes the single forward call, which  *)
(* runs with gradient tracking disabled; when postprocess returns gradient  *)
(* tracking is enabled again and the model is still in evaluation mode;     *)
(* plot_all is called exactly once, with targets and predictions both       *)
(* multiplied by the same amplification factor and name equal to the label. *)
C8_PostprocessBody ==
    /\ \A i \in CallsOf("postprocess") :
         LET ev == calls[i].events
         IN  /\ Cardinality(EventsOf(calls[i], "forward")) = 1
             /\ Cardinality(EventsOf(calls[i], "plot_all")) = 1
             /\ \A f \in EventsOf(calls[i], "forward") :
                  /\ \E e \in EventsOf(calls[i], "eval") : e < f
                  /\ \E a \in EventsOf(calls[i], "no_grad_enter") : a < f
                  /\ \A x \in EventsOf(calls[i], "no_grad_exit") : f < x
                  /\ ev[f].arg.grad = FALSE
                  /\ ev[f].arg.training = FALSE
                  /\ \A q \in EventsOf(calls[i], "plot_all") :
                       /\ f < q
                       /\ ev[q].arg.name = calls[i].arg.label
                       /\ ev[q].arg.targets.col = "targets"
                       /\ ev[q].arg.output.col = "predictions"
                       /\ ev[q].arg.output.by = <<calls[i].arg.model>>
                       /\ ev[q].arg.targets.scale = calls[i].arg.amplification
                       /\ ev[q].arg.output.scale = calls[i].arg.amplification
                       /\ ev[q].arg.targets.n = ev[f].arg.inputs.n
                       /\ ev[q].arg.output.n = ev[f].arg.inputs.n
    /\ CallsOf("postprocess") # {} => torch.grad = TRUE /\ torch.training = FALSE

\* postprocess has returned after train left the model in training mode, with
\* an amplification other than 1
C8_Witness ==
    /\ pc = "post_training"
    /\ amplification > 1
    /\ \E i \in CallsOf("postprocess") : calls[i].events[1].arg.grad = TRUE
    /\ torch.grad = TRUE
    /\ torch.training = FALSE

----------------------------------------------------------------------------
(* Reading the log of the plotting helpers *)

PlotCallsOf(fn) == {i \in 1..Len(plotlog) : plotlog[i].fn = fn}

\* The last plot_waves call that was given save_directory d
LastPlotWaves(d) ==
    LET S == {i \in PlotCallsOf("plot_waves") : plotlog[i].arg.save_directory = d}
    IN  CHOOSE i \in S : \A j \in S : j <= i

PlotEvents(i, fn) ==
    {e \in 1..Len(plotlog[i].events) : plotlog[i].events[e].fn = fn}

----------------------------------------------------------------------------
(* C5: plot_waves always saves to <save_directory>/example_batch, whatever  *)
(* batch, input_no, output_no and legend are: after any sequence of         *)
(* plot_waves calls with one save_directory that directory holds exactly    *)
(* one file written by plot_waves, with the content of the last call.       *)
C5_PlotWavesOverwrites ==
    \A d \in SaveDirectories :
       (\E i \in PlotCallsOf("plot_waves") : plotlog[i].arg.save_directory = d)
       => /\ {p \in DOMAIN fs : fs[p].by = "plot_waves" /\ DirName(p) = d}
               = {d \o <<"example_batch">>}
          /\ fs[d \o <<"example_batch">>] = plotlog[LastPlotWaves(d)].figure

\* Two plot_waves calls with one directory and different batches and counts
C5_Witness ==
    \E i, j \in PlotCallsOf("plot_waves") :
       /\ i < j
       /\ plotlog[i].arg.save_directory = plotlog[j].arg.save_directory
       /\ plotlog[i].arg.batch # plotlog[j].arg.batch
       /\ plotlog[i].figure.top.legend # plotlog[j].figure.top.legend
       /\ j = LastPlotWaves(plotlog[j].arg.save_directory)

----------------------------------------------------------------------------
(* C6: iv_plot saves the plot when save_plot is true and does not save it   *)
(* when save_plot is None or False; it shows the plot exactly when          *)
(* show_plot is true; when both happen the save precedes the show.          *)
C6_IvPlotSaveShow ==
    \A i \in PlotCallsOf("iv_plot") :
       LET a == plotlog[i].arg
           saved == PlotEvents(i, "savefig") # {}
           shown == PlotEvents(i, "show") # {}
       IN  /\ (a.save_plot.type = "bool" /\ a.save_plot.value) => saved
           /\ a.save_plot.type = "NoneType" => ~saved
           /\ (a.save_plot.type = "bool" /\ ~a.save_plot.value) => ~saved
           /\ shown <=> a.show_plot
           /\ \A s \in PlotEvents(i, "savefig"), w \in PlotEvents(i, "show") : s < w

====
